---------------------------- MODULE Spec2Model ----------------------------
(***************************************************************************)
(* A model of pytnt's TNTfile (src/pytnt/processTNT.py): opening a .tnt    *)
(* file (magic check, section-header loop, delay-table scan, decoding of   *)
(* the TMAG / DATA / TMG2 sections) and the processing calls made on an    *)
(* open file.                                                              *)
(*                                                                         *)
(* A file is a sequence of bytes (naturals below 256).  Positions and      *)
(* offsets are 0-based, as in Python; Slice and SliceFrom follow Python's  *)
(* slicing.  Text is the sequence of its character codes.                  *)
(***************************************************************************)
EXTENDS Integers, Sequences, FiniteSets, TLC

VARIABLES
    layout,         \* what was written into the file (sections, in order)
    file,           \* the bytes of the source file on disk
    pc,             \* position of TNTfile.__init__ / the file object's state
    pos,            \* cursor of the parsing file handle (tntfile.tell())
    handle,         \* TRUE while the parsing file handle is open
    tnthdrbytes,    \* the bytes returned by the last header read
    hdrReads,       \* number of section-header reads made so far
    tnt_sections,   \* self.tnt_sections: tag -> hdrdict
    search_region,  \* the bytes read from the PSEQ offset to the end
    scanFrom,       \* where delay_re.finditer looks for its next match
    DELAY,          \* self.DELAY: name -> list of delays
    TMAG,           \* self.TMAG
    TMG2,           \* self.TMG2
    DATA,           \* self.DATA: the mapped sample array
    err,            \* the exception that ended the open, or "none"
    args,           \* the last processing call and its arguments
    ret             \* value returned by the last processing call

vars == <<layout, file, pc, pos, handle, tnthdrbytes, hdrReads, tnt_sections,
          search_region, scanFrom, DELAY, TMAG, TMG2, DATA, err, args, ret>>

-----------------------------------------------------------------------------
(* Python helpers *)

Min(a, b) == IF a <= b THEN a ELSE b

Max(a, b) == IF a >= b THEN a ELSE b

\* s[a:b] of Python for 0 <= a: the elements at 0-based positions a .. b-1.
Slice(s, a, b) == SubSeq(s, Min(a, Len(s)) + 1, Min(b, Len(s)))

\* s[a:] of Python; a negative a counts from the end.
SliceFrom(s, a) ==
    LET n  == Len(s)
        st == IF a < 0 THEN Max(n + a, 0) ELSE Min(a, n)
    IN  SubSeq(s, st + 1, n)

\* d[k] = v on a dict
SetItem(d, k, v) == [x \in (DOMAIN d) \cup {k} |-> IF x = k THEN v ELSE d[x]]

\* a little-endian unsigned integer of four bytes
LE4(b) == b[1] + 256 * b[2] + 65536 * b[3] + 16777216 * b[4]

\* the four bytes of n, little-endian (what a writer of the format emits)
ToLE4(n) == << n % 256, (n \div 256) % 256, (n \div 65536) % 256,
               (n \div 16777216) % 256 >>

IsDigit(c) == c >= 48 /\ c <= 57

RECURSIVE Concat(_)
Concat(ss) == IF ss = << >> THEN << >> ELSE Head(ss) \o Concat(Tail(ss))

RECURSIVE Product(_)
Product(s) == IF s = << >> THEN 1 ELSE Head(s) * Product(Tail(s))

\* str(bdata, encoding='ascii'): fails on a byte that is not ASCII
DecodeFails(bdata) == \E i \in 1..Len(bdata) : bdata[i] > 127

decode(bdata) == bdata

-----------------------------------------------------------------------------
(* The struct catalog (TNTdtypes) *)

MagicSize == 8

TagSize == 4

LenSize == 4

\* TLV: tag (4 bytes), length (unsigned, little-endian), flag (1 byte)
HdrSize == TagSize + LenSize + 1

\* Magic_re: "TNT1." followed by three digits
MagicMatches(m) ==
    /\ Len(m) = MagicSize
    /\ SubSeq(m, 1, 5) = <<84, 78, 84, 49, 46>>
    /\ \A i \in 6..8 : IsDigit(m[i])

\* TMAG: actual_npts[4], scans, actual_scans, dwell, ob_freq, ref_freq,
\* acq_time, last_delay, one byte each
TMAGSize == 11

TMG2Size == 2

DecodeTMAG(b) ==
    [actual_npts  |-> SubSeq(b, 1, 4),
     scans        |-> b[5],
     actual_scans |-> b[6],
     dwell        |-> b[7],
     ob_freq      |-> b[8],
     ref_freq     |-> b[9],
     acq_time     |-> b[10],
     last_delay   |-> b[11]]

DecodeTMG2(b) == [bytes |-> b]

NoTMAG == DecodeTMAG(<<0, 0, 0, 0, 0, 0, 0, 0, 0, 0, 0>>)

NoTMG2 == DecodeTMG2(<< >>)

NoDATA == [mapped |-> FALSE, shape |-> << >>, flat |-> << >>]

TagTMAG == <<84, 77, 65, 71>>

TagTMG2 == <<84, 77, 71, 50>>

TagDATA == <<68, 65, 84, 65>>

TagPSEQ == <<80, 83, 69, 81>>

-----------------------------------------------------------------------------
(* The file handle *)

\* tntfile.read(n) at cursor p: at most n bytes, fewer at the end of the file
Read(f, p, n) == Slice(f, p, p + n)

\* the cursor after tntfile.read(n) at cursor p
AfterRead(f, p, n) == p + Len(Read(f, p, n))

\* a seek that stops one byte early
AfterSeekShort(p, n) == p + n - 1

\* tntfile.seek(n, io.SEEK_CUR): the cursor may pass the end of the file
AfterSeek(p, n) == p + n

-----------------------------------------------------------------------------
(* TNTfile.__init__: the magic check and the section-header loop *)

\* a handle opened without the with block: nothing closes it on an exception
WithExitLeak == TRUE

\* The state of the parsing handle once control has left the with block,
\* normally or by an exception.
WithExit == FALSE

\* The 4096 of "if data_length <= 4096"
InlineMax == 4096

\* tntTLV['tag'], tntTLV['length'], tntTLV['bool'] of a full header
HdrTag(h) == SubSeq(h, 1, TagSize)

HdrLength(h) == LE4(SubSeq(h, TagSize + 1, TagSize + LenSize))

HdrBool(h) == h[HdrSize] # 0

\* while(TNTdtypes.TLV.itemsize == len(tnthdrbytes))
LoopContinues(h) == HdrSize = Len(h)

\* the offset taken before the header was read
HdrOffsetAtHeader(p) == p - HdrSize

\* the offset recorded for a section whose header ended at cursor p
HdrOffset(p) == p

\* the hdrdict of a section whose payload was read
HdrDictData(p, h, data) ==
    [offset |-> HdrOffset(p), length |-> HdrLength(h), bool |-> HdrBool(h),
     data |-> data]

\* the hdrdict of a section whose payload was skipped
HdrDictSkip(p, h) ==
    [offset |-> HdrOffset(p), length |-> HdrLength(h), bool |-> HdrBool(h)]

\* an exception raised inside the with block: the handle is closed and the
\* exception leaves __init__
FailInWith(e) ==
    /\ pc' = "failed"
    /\ err' = e
    /\ handle' = WithExit

\* lines 35-41: open the file, read the magic, check it
ReadMagicBad ==
    /\ pc = "magic"
    /\ ~MagicMatches(Read(file, 0, MagicSize))
    /\ FailInWith("ValueError")
    /\ pos' = AfterRead(file, 0, MagicSize)
    /\ UNCHANGED <<layout, file, tnthdrbytes, hdrReads, tnt_sections,
                   search_region, scanFrom, DELAY, TMAG, TMG2, DATA, args, ret>>

ReadMagicOk ==
    /\ pc = "magic"
    /\ MagicMatches(Read(file, 0, MagicSize))
    /\ pc' = "readhdr"
    /\ handle' = TRUE
    /\ pos' = AfterRead(file, 0, MagicSize)
    /\ UNCHANGED <<layout, file, tnthdrbytes, hdrReads, tnt_sections,
                   search_region, scanFrom, DELAY, TMAG, TMG2, DATA, err, args, ret>>

\* lines 44 and 57: tnthdrbytes = tntfile.read(TNTdtypes.TLV.itemsize)
ReadHeader ==
    /\ pc = "readhdr"
    /\ tnthdrbytes' = Read(file, pos, HdrSize)
    /\ pos' = AfterRead(file, pos, HdrSize)
    /\ hdrReads' = hdrReads + 1
    /\ pc' = "loop"
    /\ UNCHANGED <<layout, file, handle, tnt_sections, search_region,
                   scanFrom, DELAY, TMAG, TMG2, DATA, err, args, ret>>

\* line 45, condition false: the header read was short, the loop is over
LoopExit ==
    /\ pc = "loop"
    /\ ~LoopContinues(tnthdrbytes)
    /\ pc' = "findpseq"
    /\ UNCHANGED <<layout, file, pos, handle, tnthdrbytes, hdrReads,
                   tnt_sections, search_region, scanFrom, DELAY, TMAG, TMG2,
                   DATA, err, args, ret>>

\* lines 46-56 with data_length <= 4096: the payload is read and kept
SectionRead ==
    /\ pc = "loop"
    /\ LoopContinues(tnthdrbytes)
    /\ HdrLength(tnthdrbytes) <= InlineMax
    /\ LET data == Read(file, pos, HdrLength(tnthdrbytes))
       IN  /\ pos' = AfterRead(file, pos, HdrLength(tnthdrbytes))
           /\ IF Len(data) # HdrLength(tnthdrbytes)
              THEN /\ FailInWith("AssertionError")
                   /\ UNCHANGED tnt_sections
              ELSE IF DecodeFails(HdrTag(tnthdrbytes))
              THEN /\ FailInWith("UnicodeDecodeError")
                   /\ UNCHANGED tnt_sections
              ELSE /\ tnt_sections' =
                          SetItem(tnt_sections, decode(HdrTag(tnthdrbytes)),
                                  HdrDictData(pos, tnthdrbytes, data))
                   /\ pc' = "readhdr"
                   /\ UNCHANGED <<handle, err>>
    /\ UNCHANGED <<layout, file, tnthdrbytes, hdrReads, search_region,
                   scanFrom, DELAY, TMAG, TMG2, DATA, args, ret>>

\* lines 46-56 with data_length > 4096: the payload is skipped
SectionSkip ==
    /\ pc = "loop"
    /\ LoopContinues(tnthdrbytes)
    /\ HdrLength(tnthdrbytes) > InlineMax
    /\ pos' = AfterSeek(pos, HdrLength(tnthdrbytes))
    /\ IF DecodeFails(HdrTag(tnthdrbytes))
       THEN /\ FailInWith("UnicodeDecodeError")
            /\ UNCHANGED tnt_sections
       ELSE /\ tnt_sections' =
                   SetItem(tnt_sections, decode(HdrTag(tnthdrbytes)),
                           HdrDictSkip(pos, tnthdrbytes))
            /\ pc' = "readhdr"
            /\ UNCHANGED <<handle, err>>
    /\ UNCHANGED <<layout, file, tnthdrbytes, hdrReads, search_region,
                   scanFrom, DELAY, TMAG, TMG2, DATA, args, ret>>

-----------------------------------------------------------------------------
(* utils.read_pascal_string and utils.convert_si *)

\* read_pascal_string(data): a four-byte little-endian length, then that
\* many bytes of text.  An index error when the declared length (or the
\* length prefix itself) does not fit in the buffer.
ReadPascalString(data) ==
    IF Len(data) < LenSize
    THEN [err |-> "IndexError", text |-> << >>]
    ELSE LET n == LE4(SubSeq(data, 1, LenSize))
         IN  IF LenSize + n > Len(data)
             THEN [err |-> "IndexError", text |-> << >>]
             ELSE IF DecodeFails(SubSeq(data, LenSize + 1, LenSize + n))
             THEN [err |-> "UnicodeDecodeError", text |-> << >>]
             ELSE [err |-> "none",
                   text |-> decode(SubSeq(data, LenSize + 1, LenSize + n))]

IsSpace(c) == c \in {9, 10, 11, 12, 13, 32}

RECURSIVE SplitAcc(_, _, _)
SplitAcc(s, cur, out) ==
    IF s = << >>
    THEN IF cur = << >> THEN out ELSE Append(out, cur)
    ELSE IF IsSpace(Head(s))
    THEN SplitAcc(Tail(s), << >>, IF cur = << >> THEN out ELSE Append(out, cur))
    ELSE SplitAcc(Tail(s), Append(cur, Head(s)), out)

\* str.split(): the maximal runs of characters that are not whitespace
Split(s) == SplitAcc(s, << >>, << >>)

\* the SI suffixes p n u m k M G
IsSuffix(c) == c \in {112, 110, 117, 109, 107, 77, 71}

SuffixExp(c) ==
    CASE c = 112 -> -12
      [] c = 110 -> -9
      [] c = 117 -> -6
      [] c = 109 -> -3
      [] c = 107 -> 3
      [] c = 77  -> 6
      [] c = 71  -> 9
      [] OTHER   -> 0

\* the mantissa of a token: the token without its suffix
Mantissa(t) == IF IsSuffix(t[Len(t)]) THEN SubSeq(t, 1, Len(t) - 1) ELSE t

\* digits with at most one decimal point, at least one digit
IsNumeric(m) ==
    /\ \A i \in 1..Len(m) : IsDigit(m[i]) \/ m[i] = 46
    /\ Cardinality({i \in 1..Len(m) : m[i] = 46}) <= 1
    /\ \E i \in 1..Len(m) : IsDigit(m[i])

RECURSIVE DigitsValue(_, _)
DigitsValue(m, acc) ==
    IF m = << >> THEN acc
    ELSE IF Head(m) = 46 THEN DigitsValue(Tail(m), acc)
    ELSE DigitsValue(Tail(m), 10 * acc + (Head(m) - 48))

\* the number of digits after the decimal point
Decimals(m) ==
    IF \E i \in 1..Len(m) : m[i] = 46
    THEN Len(m) - (CHOOSE i \in 1..Len(m) : m[i] = 46)
    ELSE 0

\* the value of one token, mant * 10^exp
ConvertToken(t) ==
    [mant |-> DigitsValue(Mantissa(t), 0),
     exp  |-> (IF IsSuffix(t[Len(t)]) THEN SuffixExp(t[Len(t)]) ELSE 0)
              - Decimals(Mantissa(t))]

\* convert_si(list of tokens): the values, in order; a ValueError on a token
\* with an unknown suffix or a mantissa that is not a number
ConvertSI(tokens) ==
    IF \E i \in 1..Len(tokens) : ~IsNumeric(Mantissa(tokens[i]))
    THEN [err |-> "ValueError", values |-> << >>]
    ELSE [err |-> "none",
          values |-> [i \in 1..Len(tokens) |-> ConvertToken(tokens[i])]]

-----------------------------------------------------------------------------
(* TNTfile.__init__: the delay-table scan *)

\* the byte at 0-based position i, -1 past the end
At(r, i) == IF i >= 0 /\ i < Len(r) THEN r[i + 1] ELSE -1

RECURSIVE DigitsEnd(_, _)
DigitsEnd(r, i) == IF IsDigit(At(r, i)) THEN DigitsEnd(r, i + 1) ELSE i

\* delay_re = b'de[0-9]+:[0-9]' matched at position s: the end of the match
\* (one past its last byte), or -1 when there is no match at s
MatchEnd(r, s) ==
    IF At(r, s) = 100 /\ At(r, s + 1) = 101 /\ IsDigit(At(r, s + 2))
    THEN LET j == DigitsEnd(r, s + 2)
         IN  IF At(r, j) = 58 /\ IsDigit(At(r, j + 1)) THEN j + 2 ELSE -1
    ELSE -1

\* the start of the next match of finditer at or after position from, or -1
NextMatch(r, from) ==
    LET S == {s \in from..(Len(r) - 1) : MatchEnd(r, s) >= 0}
    IN  IF S = {} THEN -1 ELSE CHOOSE s \in S : \A t \in S : s <= t

\* line 82: the test that keeps a decoded delay table
KeepsTable(delay) == Len(delay) > 1

\* lines 69-85, for the match at start: the exception that leaves the loop
\* ("none" when the iteration ends normally) and DELAY after the iteration
MatchBody(region, delays, start) ==
    LET name == ReadPascalString(SliceFrom(region, start - 4))
    IN  IF name.err = "IndexError"
        THEN [err |-> "none", DELAY |-> delays]
        ELSE IF name.err # "none"
        THEN [err |-> name.err, DELAY |-> delays]
        ELSE LET delay == ReadPascalString(
                              SliceFrom(region, start + Len(name.text)))
             IN  IF delay.err # "none"
                 THEN [err |-> delay.err, DELAY |-> delays]
                 ELSE IF ~KeepsTable(delay.text)
                 THEN [err |-> "none", DELAY |-> delays]
                 ELSE LET conv == ConvertSI(Split(delay.text))
                      IN  IF conv.err # "none"
                          THEN [err |-> conv.err, DELAY |-> delays]
                          ELSE [err |-> "none",
                                DELAY |-> SetItem(delays, name.text,
                                                  conv.values)]

\* lines 59-66, PSEQ missing: self.tnt_sections["PSEQ"] raises KeyError
FindPSEQMissing ==
    /\ pc = "findpseq"
    /\ TagPSEQ \notin DOMAIN tnt_sections
    /\ FailInWith("KeyError")
    /\ UNCHANGED <<layout, file, pos, tnthdrbytes, hdrReads, tnt_sections,
                   search_region, scanFrom, DELAY, TMAG, TMG2, DATA, args, ret>>

\* lines 59-66: seek to the PSEQ offset and read the rest of the file
FindPSEQ ==
    /\ pc = "findpseq"
    /\ TagPSEQ \in DOMAIN tnt_sections
    /\ search_region' = SliceFrom(file, tnt_sections[TagPSEQ].offset)
    /\ pos' = Max(tnt_sections[TagPSEQ].offset, Len(file))
    /\ scanFrom' = 0
    /\ pc' = "scan"
    /\ UNCHANGED <<layout, file, handle, tnthdrbytes, hdrReads, tnt_sections,
                   DELAY, TMAG, TMG2, DATA, err, args, ret>>

\* lines 68-85: one iteration of the loop over the matches
ScanMatch ==
    /\ pc = "scan"
    /\ NextMatch(search_region, scanFrom) >= 0
    /\ LET start == NextMatch(search_region, scanFrom)
           out   == MatchBody(search_region, DELAY, start)
       IN  /\ DELAY' = out.DELAY
           /\ scanFrom' = MatchEnd(search_region, start)
           /\ IF out.err # "none"
              THEN FailInWith(out.err)
              ELSE UNCHANGED <<pc, err, handle>>
    /\ UNCHANGED <<layout, file, pos, tnthdrbytes, hdrReads, tnt_sections,
                   search_region, TMAG, TMG2, DATA, args, ret>>

\* no match is left: the loop and the with block end
ScanDone ==
    /\ pc = "scan"
    /\ NextMatch(search_region, scanFrom) < 0
    /\ handle' = WithExit
    /\ pc' = "decode"
    /\ UNCHANGED <<layout, file, pos, tnthdrbytes, hdrReads, tnt_sections,
                   search_region, scanFrom, DELAY, TMAG, TMG2, DATA, err, args, ret>>

-----------------------------------------------------------------------------
(* TNTfile.__init__: the TMAG, DATA and TMG2 sections *)

\* line 87: assert(self.tnt_sections['TMAG']['length'] == TMAG.itemsize)
TMAGLengthOk(sections) == sections[TagTMAG].length = TMAGSize

\* lines 91-92: the DATA length is product(actual_npts) * 8
DATALengthOk(sections, tmag) ==
    sections[TagDATA].length = Product(tmag.actual_npts) * 8

\* the TMG2 length assertion left out
TMG2LengthUnchecked(sections) == TRUE

\* line 104: assert(self.tnt_sections['TMG2']['length'] == TMG2.itemsize)
TMG2LengthOk(sections) == sections[TagTMG2].length = TMG2Size

\* np.memmap(..., mode='c', offset, shape) cannot map past the end of the file
MemMapFits(f, offset, count) == offset + count * 8 <= Len(f)

\* lines 97-102: the samples (8 bytes each) at the DATA offset, mapped
\* copy-on-write and reshaped to actual_npts in column-major order
MemMap(f, offset, shape) ==
    [mapped |-> TRUE,
     shape  |-> shape,
     flat   |-> [i \in 1..Product(shape) |->
                    Slice(f, offset + 8 * (i - 1), offset + 8 * i)]]

\* DATA[i, j, k, l] of the reshaped array (order='F': first axis fastest)
DataAt(D, i, j, k, l) ==
    D.flat[1 + i + D.shape[1] * (j + D.shape[2] * (k + D.shape[3] * l))]

\* lines 87-106: the exception raised ("none" when the open succeeds) and
\* the attributes assigned before it
DecodeSections(sections, f) ==
    LET none == [err |-> "none", TMAG |-> NoTMAG, DATA |-> NoDATA,
                 TMG2 |-> NoTMG2]
    IN
    IF TagTMAG \notin DOMAIN sections
    THEN [none EXCEPT !.err = "KeyError"]
    ELSE IF ~TMAGLengthOk(sections)
    THEN [none EXCEPT !.err = "AssertionError"]
    ELSE
    LET tmag == DecodeTMAG(sections[TagTMAG].data)
        t1   == [none EXCEPT !.TMAG = tmag]
    IN
    IF TagDATA \notin DOMAIN sections
    THEN [t1 EXCEPT !.err = "KeyError"]
    ELSE IF ~DATALengthOk(sections, tmag)
    THEN [t1 EXCEPT !.err = "AssertionError"]
    ELSE IF ~MemMapFits(f, sections[TagDATA].offset,
                        Product(tmag.actual_npts))
    THEN [t1 EXCEPT !.err = "ValueError"]
    ELSE
    LET t2 == [t1 EXCEPT !.DATA = MemMap(f, sections[TagDATA].offset,
                                         tmag.actual_npts)]
    IN
    IF TagTMG2 \notin DOMAIN sections
    THEN [t2 EXCEPT !.err = "KeyError"]
    ELSE IF ~TMG2LengthOk(sections)
    THEN [t2 EXCEPT !.err = "AssertionError"]
    ELSE [t2 EXCEPT !.TMG2 = DecodeTMG2(sections[TagTMG2].data)]

\* lines 87-106
Decode ==
    /\ pc = "decode"
    /\ LET out == DecodeSections(tnt_sections, file)
       IN  /\ TMAG' = out.TMAG
           /\ DATA' = out.DATA
           /\ TMG2' = out.TMG2
           /\ err' = out.err
           /\ pc' = IF out.err = "none" THEN "opened" ELSE "failed"
    /\ UNCHANGED <<layout, file, pos, handle, tnthdrbytes, hdrReads,
                   tnt_sections, search_region, scanFrom, DELAY, args, ret>>

-----------------------------------------------------------------------------
(* The processing calls.  A frequency axis is a list of numerators over a  *)
(* common positive denominator; times are whole numbers of the units of    *)
(* the TMAG record.  The transformed samples of LBfft are not computed:    *)
(* its result records its shape and the rows the DC offset is taken from.  *)

Zeros8 == <<0, 0, 0, 0, 0, 0, 0, 0>>

\* altDATA=None
IsNone(alt) == alt = NoDATA

\* int(npts / -8): the start of the slice DATA[int(npts / -8):, :, :, :]
DCStart(npts) == -(npts \div 8)

\* the rows (0-based, along the first axis) of the slice DATA[start:]
RowsFrom(npts, start) ==
    {i \in 0..(npts - 1) :
        i >= (IF start < 0 THEN Max(npts + start, 0) ELSE Min(start, npts))}

\* the DC offset subtracted in place (DATA -= DCoffset) on the mapped array
LBfftInPlace(D, zf, dcGiven, alt) ==
    LET data    == IF IsNone(alt) THEN D ELSE alt
        npts    == data.shape[1]
        npts_ft == npts * (2 ^ zf)
    IN  [self_data |-> IF IsNone(alt)
                       THEN [D EXCEPT !.flat = [i \in DOMAIN D.flat |-> Zeros8]]
                       ELSE D,
         out |-> [shape   |-> [data.shape EXCEPT ![1] = npts_ft],
                  dc_rows |-> IF dcGiven THEN {}
                              ELSE RowsFrom(npts, DCStart(npts))]]

\* lines 153-186.  self_data is self.DATA after the call: every array
\* operation of LBfft on DATA allocates its result, and the in-place
\* operations act on those results only.
LBfft(D, zf, dcGiven, alt) ==
    LET data    == IF IsNone(alt) THEN D ELSE alt
        npts    == data.shape[1]
        npts_ft == npts * (2 ^ zf)
    IN  [self_data |-> D,
         out |-> [shape   |-> [data.shape EXCEPT ![1] = npts_ft],
                  dc_rows |-> IF dcGiven THEN {}
                              ELSE RowsFrom(npts, DCStart(npts))]]

\* the number of points of the axis functions
AxisNpts(T, alt) == IF IsNone(alt) THEN T.actual_npts[1] ELSE alt.shape[1]

\* lines 188-197: -(fftshift(fftfreq(npts, dw)) + ref_freq)
FreqHz(T, alt) ==
    LET npts == AxisNpts(T, alt)
    IN  [num |-> [i \in 1..npts |->
                    -(((i - 1) - (npts \div 2)) + T.ref_freq * npts * T.dwell)],
         den |-> npts * T.dwell]

\* lines 199-202: freq_Hz / ob_freq[0]
FreqPpm(T, alt) ==
    [num |-> FreqHz(T, alt).num, den |-> FreqHz(T, alt).den * T.ob_freq]

\* lines 204-212: np.arange(npts) * dw
FidTimes(T, alt) == [i \in 1..AxisNpts(T, alt) |-> (i - 1) * T.dwell]

Reverse(s) == [i \in 1..Len(s) |-> s[Len(s) + 1 - i]]

\* np.searchsorted(a, v, side): the binary search of numpy between lo and hi
RECURSIVE BinSearch(_, _, _, _, _)
BinSearch(a, v, side, lo, hi) ==
    IF lo >= hi THEN lo
    ELSE LET mid == lo + ((hi - lo) \div 2)
         IN  IF (side = "left" /\ a[mid + 1] < v)
                \/ (side = "right" /\ a[mid + 1] <= v)
             THEN BinSearch(a, v, side, mid + 1, hi)
             ELSE BinSearch(a, v, side, lo, mid)

SearchSorted(a, v, side) == BinSearch(a, v, side, 0, Len(a))

\* lines 219-228 of ppm_points, given the ppm axis
PpmPoints(ppm, max_ppm, min_ppm) ==
    LET npts == Len(ppm)
    IN  << npts - SearchSorted(Reverse(ppm), max_ppm, "right"),
           npts - SearchSorted(Reverse(ppm), min_ppm, "left") >>

\* lines 214-228: ppm_points on the axis of freq_ppm
PpmPointsOf(T, max_ppm, min_ppm, alt) ==
    PpmPoints(FreqPpm(T, alt).num, max_ppm * FreqPpm(T, alt).den,
              min_ppm * FreqPpm(T, alt).den)

\* lines 230-233
PpmPointsReverse(T, min_ppm, max_ppm, alt) ==
    << PpmPointsOf(T, max_ppm, min_ppm, alt)[2] - 1,
       PpmPointsOf(T, max_ppm, min_ppm, alt)[1] - 1 >>

\* lines 235-239
SpecAcqTime(T) == T.scans * (T.acq_time + T.last_delay)

\* lines 241-245, nspec=None
SpecTimes(T) ==
    [i \in 1..Product(SubSeq(T.actual_npts, 2, 4)) |-> (i - 1) * SpecAcqTime(T)]

\* the last spectrum counted whether or not its scans were finished
NCompleteSpecNoOmit(T) ==
    IF \E i \in 3..Len(T.actual_npts) : T.actual_npts[i] # 1
    THEN [err |-> "AssertionError", val |-> 0]
    ELSE [err |-> "none", val |-> T.actual_npts[2]]

\* lines 247-259
NCompleteSpec(T) ==
    IF \E i \in 3..Len(T.actual_npts) : T.actual_npts[i] # 1
    THEN [err |-> "AssertionError", val |-> 0]
    ELSE [err |-> "none",
          val |-> IF T.scans = T.actual_scans
                  THEN T.actual_npts[2]
                  ELSE T.actual_npts[2] - 1]

-----------------------------------------------------------------------------
(* Bounds of the model *)

\* sections of a file of the free-form family
MaxSecs == 2

\* candidate delay tables of a scanned region
MaxTables == 2

\* points along the first axis of a small acquisition
MaxPts == 2

\* the zero-fill powers tried
MaxZf == 1

\* ppm bounds tried, in absolute value
MaxPpm == 1

-----------------------------------------------------------------------------
(* The files the model opens: what a writer of the format produces.  A     *)
(* section is its tag, its declared length, its flag byte and the payload  *)
(* bytes really present after the header.                                  *)

Sec(tag, length, bool, payload) ==
    [tag |-> tag, length |-> length, bool |-> bool, payload |-> payload]

EncodeSec(s) == s.tag \o ToLE4(s.length) \o <<s.bool>> \o s.payload

EncodeFile(l) ==
    l.magic \o Concat([i \in 1..Len(l.secs) |-> EncodeSec(l.secs[i])]) \o l.tail

SeqsUpTo(S, n) == UNION {[1..k -> S] : k \in 0..n}

GoodMagic == <<84, 78, 84, 49, 46, 48, 48, 53>>

BadMagics == { <<84, 78, 84, 50, 46, 48, 48, 53>>,
               <<84, 78, 84, 49, 46, 48, 120, 53>>,
               <<84, 78, 84, 49>>,
               << >> }

\* a delay table as it lies in the PSEQ blob
Block(nameLen, name, delayLen, delay) ==
    ToLE4(nameLen) \o name \o ToLE4(delayLen) \o delay

NameA == <<100, 101, 49, 58, 50>>

NameB == <<100, 101, 49, 50, 58, 51, 120>>

Blocks ==
    { Block(5, NameA, 5, <<49, 109, 32, 50, 109>>),
      Block(5, NameA, 2, <<53, 117>>),
      ToLE4(200) \o NameA,
      Block(5, NameA, 200, <<49, 109, 32, 50, 109>>),
      Block(7, NameB, 1, <<55>>),
      NameA,
      Block(5, NameA, 5, <<49, 109, 32, 50, 113>>),
      Block(7, NameB, 6, <<49, 46, 53, 117, 32, 50>>),
      <<0, 0, 0, 0>> }

Regions == {Concat(bs) : bs \in SeqsUpTo(Blocks, MaxTables)}

Zeros(n) == [i \in 1..n |-> 0]

Ramp(n) == [i \in 1..n |-> i % 251]

TagA == <<65, 65, 65, 65>>

TagB == <<66, 66, 66, 66>>

TagHigh == <<66, 200, 66, 66>>

FreePool ==
    { Sec(TagA, 0, 0, << >>),
      Sec(TagA, 2, 1, <<1, 2>>),
      Sec(TagB, 3, 0, <<7, 8, 9>>),
      Sec(TagB, 3, 0, <<7>>),
      Sec(TagB, 4097, 1, Zeros(4097)),
      Sec(TagA, 5000, 0, <<5>>),
      Sec(TagHigh, 1, 0, <<0>>),
      Sec(TagPSEQ, 1, 0, <<0>>) }

FreeLayouts ==
    { [magic |-> GoodMagic, secs |-> ss, tail |-> t] :
        ss \in SeqsUpTo(FreePool, MaxSecs), t \in { << >>, <<84, 77, 65>> } }
    \cup
    { [magic |-> m, secs |-> ss, tail |-> << >>] :
        m \in BadMagics, ss \in SeqsUpTo({Sec(TagA, 2, 1, <<1, 2>>)}, 1) }

\* TMAG payloads: actual_npts, scans, actual_scans, dwell, ob_freq,
\* ref_freq, acq_time, last_delay
TMAGPayloads ==
    { <<n0, n1, n2, 1, 8, as, 2, 3, 0, 3, 1>> :
        n0 \in 1..MaxPts, n1 \in {1, 5}, n2 \in {1, 2}, as \in {8, 5} }
    \cup { <<171, 3, 1, 1, 8, 8, 2, 3, 1, 3, 1>>,
           <<2, 1, 1, 2, 8, 8, 2, 3, 0, 3, 1>> }

TMAGSecs == { Sec(TagTMAG, TMAGSize, 0, p) : p \in TMAGPayloads }

\* the DATA sections tried after a TMAG section: the right length, and a
\* length one sample short
DATASecs(tm) ==
    LET n == Product(SubSeq(tm.payload, 1, 4)) * 8
    IN  { Sec(TagDATA, n, 0, Ramp(n)),
          Sec(TagDATA, n - 8, 0, Ramp(n - 8)) }

TMG2Secs == { Sec(TagTMG2, TMG2Size, 0, <<1, 2>>),
              Sec(TagTMG2, 3, 0, <<1, 2, 3>>) }

PSEQSecs ==
    { Sec(TagPSEQ, Len(r), 0, r) :
        r \in { <<0>>,
                Block(5, NameA, 5, <<49, 109, 32, 50, 109>>)
                    \o Block(5, NameA, 2, <<53, 117>>),
                Block(5, NameA, 200, <<49, 109, 32, 50, 109>>) } }

BaseTMAG == Sec(TagTMAG, TMAGSize, 0, <<2, 5, 1, 1, 8, 8, 2, 3, 0, 3, 1>>)

ShortTMAG == Sec(TagTMAG, 10, 0, <<2, 1, 1, 1, 8, 8, 2, 3, 0, 3>>)

\* TMAG, DATA, TMG2, PSEQ in this order: every TMAG payload with its DATA
\* section, and every variant of the four sections around two of them
RecordLayouts ==
    UNION { { [magic |-> GoodMagic, secs |-> <<tm, da, t2, ps>>,
               tail |-> << >>] :
                da \in DATASecs(tm), t2 \in TMG2Secs, ps \in PSEQSecs } :
            tm \in {BaseTMAG, ShortTMAG} }
    \cup
    UNION { { [magic |-> GoodMagic,
               secs  |-> <<tm, da, Sec(TagTMG2, TMG2Size, 0, <<1, 2>>),
                           Sec(TagPSEQ, 1, 0, <<0>>)>>,
               tail  |-> << >>] : da \in DATASecs(tm) } :
            tm \in TMAGSecs }

\* a large DATA section, last in the file, whose payload ends early
CutLayouts ==
    { [magic |-> GoodMagic,
       secs  |-> << Sec(TagTMAG, TMAGSize, 0,
                        <<171, 3, 1, 1, 8, 8, 2, 3, 1, 3, 1>>),
                    Sec(TagTMG2, TMG2Size, 0, <<1, 2>>),
                    Sec(TagPSEQ, 1, 0, <<0>>),
                    Sec(TagDATA, 4104, 0, Ramp(16)) >>,
       tail  |-> << >>] }

Layouts == FreeLayouts \cup RecordLayouts \cup CutLayouts

NoLayout == [magic |-> << >>, secs |-> << >>, tail |-> << >>]

NoArgs == [call |-> "none"]

NoRet == [err |-> "none", val |-> 0]

\* the substitute arrays passed as altDATA (NoDATA: none passed)
AltArrays ==
    { NoDATA,
      [mapped |-> FALSE, shape |-> <<3, 1, 1, 1>>,
       flat |-> <<Zeros(8), Ramp(8), Zeros(8)>>] }

-----------------------------------------------------------------------------
(* The processing calls on an open file *)

\* a call that reads the object and returns v
Returns(a, v) ==
    /\ pc = "opened"
    /\ args' = a
    /\ ret' = v
    /\ UNCHANGED <<layout, file, pc, pos, handle, tnthdrbytes, hdrReads,
                   tnt_sections, search_region, scanFrom, DELAY, TMAG, TMG2,
                   err>>

CallLBfft ==
    \E zf \in 0..MaxZf, dc \in BOOLEAN, alt \in AltArrays :
        /\ Returns([call |-> "LBfft", zf |-> zf, dc |-> dc, alt |-> alt],
                   [err |-> "none", val |-> LBfft(DATA, zf, dc, alt).out])
        /\ DATA' = LBfft(DATA, zf, dc, alt).self_data

CallFreqHz ==
    \E alt \in AltArrays :
        /\ Returns([call |-> "freq_Hz", alt |-> alt],
                   [err |-> "none", val |-> FreqHz(TMAG, alt)])
        /\ UNCHANGED DATA

CallFreqPpm ==
    \E alt \in AltArrays :
        /\ Returns([call |-> "freq_ppm", alt |-> alt],
                   [err |-> "none", val |-> FreqPpm(TMAG, alt)])
        /\ UNCHANGED DATA

CallFidTimes ==
    \E alt \in AltArrays :
        /\ Returns([call |-> "fid_times", alt |-> alt],
                   [err |-> "none", val |-> FidTimes(TMAG, alt)])
        /\ UNCHANGED DATA

CallPpmPoints ==
    \E mx \in (-MaxPpm)..MaxPpm, mn \in (-MaxPpm)..MaxPpm :
        /\ mx >= mn
        /\ Returns([call |-> "ppm_points", max_ppm |-> mx, min_ppm |-> mn],
                   [err |-> "none",
                    val |-> PpmPointsOf(TMAG, mx, mn, NoDATA)])
        /\ UNCHANGED DATA

CallPpmPointsReverse ==
    \E mx \in (-MaxPpm)..MaxPpm, mn \in (-MaxPpm)..MaxPpm :
        /\ mx >= mn
        /\ Returns([call |-> "ppm_points_reverse", max_ppm |-> mx,
                    min_ppm |-> mn],
                   [err |-> "none",
                    val |-> PpmPointsReverse(TMAG, mn, mx, NoDATA)])
        /\ UNCHANGED DATA

CallSpecAcqTime ==
    /\ Returns([call |-> "spec_acq_time"],
               [err |-> "none", val |-> SpecAcqTime(TMAG)])
    /\ UNCHANGED DATA

CallSpecTimes ==
    /\ Returns([call |-> "spec_times"],
               [err |-> "none", val |-> SpecTimes(TMAG)])
    /\ UNCHANGED DATA

CallNCompleteSpec ==
    /\ Returns([call |-> "n_complete_spec"], NCompleteSpec(TMAG))
    /\ UNCHANGED DATA

-----------------------------------------------------------------------------
(* Opening a file, then calling on it *)

Init ==
    /\ layout \in Layouts
    /\ file = EncodeFile(layout)
    /\ pc = "magic"
    /\ pos = 0
    /\ handle = FALSE
    /\ tnthdrbytes = << >>
    /\ hdrReads = 0
    /\ tnt_sections = << >>
    /\ search_region = << >>
    /\ scanFrom = 0
    /\ DELAY = << >>
    /\ TMAG = NoTMAG
    /\ TMG2 = NoTMG2
    /\ DATA = NoDATA
    /\ err = "none"
    /\ args = NoArgs
    /\ ret = NoRet

\* lines 35-57: the magic check and the section-header loop
HeaderLoop ==
    \/ ReadMagicBad
    \/ ReadMagicOk
    \/ ReadHeader
    \/ LoopExit
    \/ SectionRead
    \/ SectionSkip

\* lines 58-85: the delay-table scan
DelayScan ==
    \/ FindPSEQMissing
    \/ FindPSEQ
    \/ ScanMatch
    \/ ScanDone

Open == HeaderLoop \/ DelayScan \/ Decode

Calls ==
    \/ CallLBfft
    \/ CallFreqHz
    \/ CallFreqPpm
    \/ CallFidTimes
    \/ CallPpmPoints
    \/ CallPpmPointsReverse
    \/ CallSpecAcqTime
    \/ CallSpecTimes
    \/ CallNCompleteSpec

Next == Open \/ Calls

Spec == Init /\ [][Next]_vars

\* __init__ is sequential code: once called, the magic check and the
\* section-header loop keep taking their next step
LiveSpec == Init /\ [][Open]_vars /\ WF_vars(HeaderLoop)

-----------------------------------------------------------------------------
(* The delay-table scan on its own, over the regions of Regions *)

InitDelay ==
    /\ layout = NoLayout
    /\ file = << >>
    /\ search_region \in Regions
    /\ pc = "scan"
    /\ pos = 0
    /\ handle = TRUE
    /\ tnthdrbytes = << >>
    /\ hdrReads = 0
    /\ tnt_sections = << >>
    /\ scanFrom = 0
    /\ DELAY = << >>
    /\ TMAG = NoTMAG
    /\ TMG2 = NoTMG2
    /\ DATA = NoDATA
    /\ err = "none"
    /\ args = NoArgs
    /\ ret = NoRet

NextDelay == ScanMatch \/ ScanDone

SpecDelay == InitDelay /\ [][NextDelay]_vars

-----------------------------------------------------------------------------
(* ppm_points on its own, over every non-increasing axis within the bounds *)

\* length of the axes tried
MaxLen == 4

\* largest value on an axis
MaxVal == 4

IsDecreasing(s) == \A i \in 1..(Len(s) - 1) : s[i] >= s[i + 1]

Axes == {s \in UNION {[1..n -> 0..MaxVal] : n \in 1..MaxLen} : IsDecreasing(s)}

InitPpm ==
    /\ layout = NoLayout
    /\ file = << >>
    /\ search_region = << >>
    /\ pc = "call"
    /\ pos = 0
    /\ handle = FALSE
    /\ tnthdrbytes = << >>
    /\ hdrReads = 0
    /\ tnt_sections = << >>
    /\ scanFrom = 0
    /\ DELAY = << >>
    /\ TMAG = NoTMAG
    /\ TMG2 = NoTMG2
    /\ DATA = NoDATA
    /\ err = "none"
    /\ \E ppm \in Axes, mx \in (-1)..(MaxVal + 1), mn \in (-1)..(MaxVal + 1) :
          /\ mx >= mn
          /\ args = [call |-> "ppm_points", ppm |-> ppm, max_ppm |-> mx,
                     min_ppm |-> mn]
    /\ ret = NoRet

ApplyPpmPoints ==
    /\ pc = "call"
    /\ pc' = "returned"
    /\ ret' = [err |-> "none",
               val |-> PpmPoints(args.ppm, args.max_ppm, args.min_ppm)]
    /\ UNCHANGED <<layout, file, pos, handle, tnthdrbytes, hdrReads,
                   tnt_sections, search_region, scanFrom, DELAY, TMAG, TMG2,
                   DATA, err, args>>

NextPpm == ApplyPpmPoints

SpecPpm == InitPpm /\ [][NextPpm]_vars

-----------------------------------------------------------------------------
(* Properties *)

InOpenLoop == pc \in {"magic", "readhdr", "loop"}

\* C1: a file whose first bytes do not match the magic pattern fails to open
\* with the magic check's ValueError before any section header is read, and
\* leaves neither the parsing handle nor a sample mapping open.
C1_MagicRejected ==
    (pc # "magic" /\ ~MagicMatches(Read(file, 0, MagicSize)))
        => /\ pc = "failed"
           /\ err = "ValueError"
           /\ hdrReads = 0
           /\ tnt_sections = << >>
           /\ ~handle
           /\ ~DATA.mapped

C1_Witness ==
    /\ pc = "failed"
    /\ Len(file) > MagicSize + HdrSize
    /\ Len(Read(file, 0, MagicSize)) = MagicSize
    /\ ~MagicMatches(Read(file, 0, MagicSize))

\* the file as its writer laid it out: a valid magic, then sections with
\* text tags, each of at most 4096 bytes with all its payload present
WellFormed(l) ==
    /\ MagicMatches(l.magic)
    /\ Len(l.tail) < HdrSize
    /\ \A i \in 1..Len(l.secs) :
          /\ l.secs[i].length <= InlineMax
          /\ Len(l.secs[i].payload) = l.secs[i].length
          /\ ~DecodeFails(l.secs[i].tag)

LayoutTags(l) == {l.secs[i].tag : i \in 1..Len(l.secs)}

\* the last section written under tag t
LastOf(l, t) ==
    CHOOSE i \in 1..Len(l.secs) :
        /\ l.secs[i].tag = t
        /\ \A j \in (i + 1)..Len(l.secs) : l.secs[j].tag # t

\* where the writer put the payload of section i
PayloadStart(l, i) ==
    Len(l.magic) + Len(Concat([j \in 1..(i - 1) |-> EncodeSec(l.secs[j])]))
        + HdrSize

\* C2: for a valid magic followed by N sections of at most 4096 bytes with
\* their payload present, the section table has one entry per distinct tag
\* (N when the tags are distinct); each entry holds the position just after
\* the header, the declared length, the flag and the payload bytes written,
\* those of the last section written under the tag.
C2_SectionTable ==
    (WellFormed(layout) /\ ~InOpenLoop)
        => /\ DOMAIN tnt_sections = LayoutTags(layout)
           /\ (Cardinality(LayoutTags(layout)) = Len(layout.secs)
                  => Cardinality(DOMAIN tnt_sections) = Len(layout.secs))
           /\ \A t \in LayoutTags(layout) :
                 LET s == layout.secs[LastOf(layout, t)]
                     e == tnt_sections[t]
                 IN  /\ e.offset = PayloadStart(layout, LastOf(layout, t))
                     /\ e.length = s.length
                     /\ e.bool = (s.bool # 0)
                     /\ e.data = s.payload
                     /\ Slice(file, e.offset, e.offset + e.length) = s.payload

C2_Witness ==
    /\ pc = "findpseq"
    /\ WellFormed(layout)
    /\ Len(layout.secs) = 2
    /\ layout.secs[1].tag = layout.secs[2].tag
    /\ layout.secs[1].payload # layout.secs[2].payload
    /\ tnt_sections[layout.secs[1].tag].data = layout.secs[2].payload

\* the lengths the open requires of the TMAG, TMG2 and DATA sections
LengthsRight ==
    /\ {TagTMAG, TagTMG2, TagDATA} \subseteq DOMAIN tnt_sections
    /\ tnt_sections[TagTMAG].length = TMAGSize
    /\ tnt_sections[TagTMG2].length = TMG2Size
    /\ tnt_sections[TagDATA].length = Product(TMAG.actual_npts) * 8

\* the header just read declares at most 4096 bytes and fewer are left
ShortPayload ==
    /\ pc = "loop"
    /\ LoopContinues(tnthdrbytes)
    /\ HdrLength(tnthdrbytes) <= InlineMax
    /\ pos + HdrLength(tnthdrbytes) > Len(file)

\* C3: the open fails, and no file object is returned, whenever the TMAG,
\* TMG2 or DATA length is not the required one or a section of at most 4096
\* bytes has fewer payload bytes than declared: an open that succeeds has
\* the three lengths right, a short payload fails the open at once with the
\* assertion's error, and a failed open stays failed.
C3_LengthMismatchFails ==
    /\ [](pc = "opened" => LengthsRight)
    /\ [][ShortPayload => (pc' = "failed" /\ err' = "AssertionError")]_vars
    /\ [][pc = "failed" => pc' = "failed"]_vars

C3_Witness ==
    /\ pc = "failed"
    /\ err = "AssertionError"
    /\ DATA.mapped
    /\ TagTMG2 \in DOMAIN tnt_sections
    /\ tnt_sections[TagTMG2].length # TMG2Size

\* C4: once the scan is over, DELAY holds a name only for a table whose
\* delay list has more than one entry.
C4_SingleEntryDiscarded ==
    \A name \in DOMAIN DELAY : Len(DELAY[name]) > 1

\* C5: no index error of a Pascal-string decode at a marker match ends the
\* open: the scan goes on to the next match.
C5_DecodeNeverAborts == ~(pc = "failed" /\ err = "IndexError")

\* the least index of S, default when S is empty
FirstOf(S, default) ==
    IF S = {} THEN default ELSE CHOOSE i \in S : \A j \in S : i <= j

ClaimStart(ppm, mx) ==
    FirstOf({i \in 0..(Len(ppm) - 1) : ppm[i + 1] <= mx}, 0)

ClaimEnd(ppm, mn, start) ==
    FirstOf({i \in start..(Len(ppm) - 1) : ppm[i + 1] < mn}, Len(ppm))

\* C6: on a decreasing axis with max_ppm >= min_ppm, ppm_points returns
\* the first index whose value is <= max_ppm (0 when there is none) and the
\* first index at or after it whose value is < min_ppm (len(ppm) when there
\* is none).
C6_PpmPoints ==
    pc = "returned"
        => ret.val =
             << ClaimStart(args.ppm, args.max_ppm),
                ClaimEnd(args.ppm, args.min_ppm,
                         ClaimStart(args.ppm, args.max_ppm)) >>

\* C7: n_complete_spec fails its assertion when a dimension beyond the
\* second is not 1; otherwise it returns actual_npts[1] when scans equals
\* actual_scans and actual_npts[1] - 1 when not (5 and 4 for [N,5,1,1] with
\* scans = 8 and actual_scans = 8 and 5).
C7_NCompleteSpec ==
    (pc = "opened" /\ args.call = "n_complete_spec")
        => /\ (TMAG.actual_npts[3] # 1 \/ TMAG.actual_npts[4] # 1)
                 => ret.err = "AssertionError"
           /\ (TMAG.actual_npts[3] = 1 /\ TMAG.actual_npts[4] = 1)
                 => /\ ret.err = "none"
                    /\ TMAG.scans = TMAG.actual_scans
                          => ret.val = TMAG.actual_npts[2]
                    /\ TMAG.scans # TMAG.actual_scans
                          => ret.val = TMAG.actual_npts[2] - 1
                    /\ (TMAG.actual_npts[2] = 5 /\ TMAG.scans = 8
                            /\ TMAG.actual_scans = 8) => ret.val = 5
                    /\ (TMAG.actual_npts[2] = 5 /\ TMAG.scans = 8
                            /\ TMAG.actual_scans = 5) => ret.val = 4

C7_Witness ==
    /\ pc = "opened"
    /\ args.call = "n_complete_spec"
    /\ TMAG.actual_npts = <<2, 5, 1, 1>>
    /\ TMAG.scans = 8
    /\ TMAG.actual_scans = 5
    /\ ret.val = 4

\* C8: when the section-header loop has ended normally, every entry of the
\* section table has offset + length within the file.
C8_SectionsInFile ==
    pc = "findpseq"
        => \A t \in DOMAIN tnt_sections :
              tnt_sections[t].offset + tnt_sections[t].length <= Len(file)

\* C9: a processing call on an open file changes neither the section table,
\* the TMAG and TMG2 records, DELAY, the mapped samples nor the file.
C9_CallsChangeNothing ==
    [][pc = "opened"
          => /\ tnt_sections' = tnt_sections
             /\ TMAG' = TMAG
             /\ TMG2' = TMG2
             /\ DELAY' = DELAY
             /\ DATA' = DATA
             /\ file' = file]_vars

C9_Witness ==
    /\ pc = "opened"
    /\ args.call = "LBfft"
    /\ IsNone(args.alt)
    /\ DATA.mapped
    /\ DELAY # << >>

\* C10: with a valid magic the section-header loop ends; a full header read
\* moves the cursor by the header size, an iteration that completes moves it
\* by the declared length, and a short header read ends the loop without an
\* error.
C10_LoopTerminates ==
    /\ <>(~InOpenLoop)
    /\ [][(pc = "readhdr" /\ LoopContinues(tnthdrbytes'))
             => pos' = pos + HdrSize]_vars
    /\ [][(pc = "loop" /\ pc' = "readhdr")
             => pos' = pos + HdrLength(tnthdrbytes)]_vars
    /\ [][(pc = "loop" /\ ~LoopContinues(tnthdrbytes))
             => (pc' = "findpseq" /\ err' = "none")]_vars

C10_Witness ==
    /\ pc = "findpseq"
    /\ hdrReads = 3
    /\ Len(tnthdrbytes) > 0
    /\ \E t \in DOMAIN tnt_sections :
          /\ tnt_sections[t].length > InlineMax
          /\ tnt_sections[t].offset + tnt_sections[t].length <= Len(file)

-----------------------------------------------------------------------------
(* LBfft on arrays of every first-axis length *)

\* largest first-axis length of an array handed to LBfft
MaxRows == 17

\* largest second-axis length of an array handed to LBfft
MaxCols == 3

\* an altDATA array of shape (npts, n1, 1, 1)
AltOf(npts, n1) ==
    [mapped |-> FALSE, shape |-> <<npts, n1, 1, 1>>,
     flat |-> [i \in 1..(npts * n1) |-> Zeros8]]

InitDC ==
    /\ layout = NoLayout
    /\ file = << >>
    /\ search_region = << >>
    /\ pc = "call"
    /\ pos = 0
    /\ handle = FALSE
    /\ tnthdrbytes = << >>
    /\ hdrReads = 0
    /\ tnt_sections = << >>
    /\ scanFrom = 0
    /\ DELAY = << >>
    /\ TMAG = NoTMAG
    /\ TMG2 = NoTMG2
    /\ DATA = NoDATA
    /\ err = "none"
    /\ \E npts \in 1..MaxRows, n1 \in 1..MaxCols, zf \in 0..MaxZf,
          dc \in BOOLEAN :
          args = [call |-> "LBfft", zf |-> zf, dc |-> dc,
                  alt |-> AltOf(npts, n1)]
    /\ ret = NoRet

\* LBfft(zf=zf, DCoffset=..., altDATA=alt)
ApplyLBfft ==
    /\ pc = "call"
    /\ pc' = "returned"
    /\ ret' = [err |-> "none",
               val |-> LBfft(DATA, args.zf, args.dc, args.alt).out]
    /\ DATA' = LBfft(DATA, args.zf, args.dc, args.alt).self_data
    /\ UNCHANGED <<layout, file, pos, handle, tnthdrbytes, hdrReads,
                   tnt_sections, search_region, scanFrom, DELAY, TMAG, TMG2,
                   err, args>>

NextDC == ApplyLBfft

SpecDC == InitDC /\ [][NextDC]_vars

\* the rows npts - floor(npts/8) .. npts - 1
LastEighth(npts) == {i \in 0..(npts - 1) : i >= npts - (npts \div 8)}

\* C11: when LBfft is called with no DC offset, for every first-axis length
\* npts >= 1 the offset is estimated from the floor(npts/8) rows
\* npts - floor(npts/8) .. npts - 1 and from no other row.
C11_DCLastEighth ==
    (pc = "returned" /\ ~args.dc)
        => ret.val.dc_rows = LastEighth(args.alt.shape[1])

-----------------------------------------------------------------------------
(* ppm_points of src/processTNT.py (the linear scan) *)

\* for i in range(from, npts): if ppm[i] <= max_ppm: return i; none: default
RECURSIVE ScanMax(_, _, _, _)
ScanMax(ppm, max_ppm, i, default) ==
    IF i >= Len(ppm) THEN default
    ELSE IF ppm[i + 1] <= max_ppm THEN i
    ELSE ScanMax(ppm, max_ppm, i + 1, default)

\* for i in range(from, npts): if ppm[i] < min_ppm: return i; none: default
RECURSIVE ScanMin(_, _, _, _)
ScanMin(ppm, min_ppm, i, default) ==
    IF i >= Len(ppm) THEN default
    ELSE IF ppm[i + 1] < min_ppm THEN i
    ELSE ScanMin(ppm, min_ppm, i + 1, default)

\* src/processTNT.py lines 183-199, given the ppm axis
PpmPointsLinear(ppm, max_ppm, min_ppm) ==
    LET npts      == Len(ppm)
        i_max_ppm == ScanMax(ppm, max_ppm, 0, 0)
        i_min_ppm == ScanMin(ppm, min_ppm, i_max_ppm, npts)
    IN  <<i_max_ppm, i_min_ppm>>

\* both versions called on the same axis and bounds
ApplyBoth ==
    /\ pc = "call"
    /\ pc' = "returned"
    /\ ret' = [err |-> "none",
               val |-> [binary |-> PpmPoints(args.ppm, args.max_ppm,
                                             args.min_ppm),
                        linear |-> PpmPointsLinear(args.ppm, args.max_ppm,
                                                   args.min_ppm)]]
    /\ UNCHANGED <<layout, file, pos, handle, tnthdrbytes, hdrReads,
                   tnt_sections, search_region, scanFrom, DELAY, TMAG, TMG2,
                   DATA, err, args>>

NextBoth == ApplyBoth

SpecBoth == InitPpm /\ [][NextBoth]_vars

\* C12: on every decreasing axis and every max_ppm >= min_ppm, the
\* binary-search ppm_points and the linear-scan ppm_points return the same
\* pair, also when max_ppm is below every value or min_ppm above every value.
C12_SamePoints ==
    pc = "returned" => ret.val.binary = ret.val.linear

=============================================================================
